---- MODULE Spec2Model ----
(***************************************************************************)
(* Model of zipline/modelling/factor/factor.py: the operator factories of  *)
(* Factor (binary_operator, reflected_binary_operator, unary_operator,     *)
(* function_application) and the Rank factor.                              *)
(*                                                                         *)
(* An expression string is a sequence of tokens; "x_i" is the token        *)
(* X(i), a formatted numeric constant is C(n), every other character       *)
(* group (parentheses, operator symbol, function name) is S(text).         *)
(* A plain leaf Factor is identified by its id: the Term base class        *)
(* memoises instances, so object identity is structural identity.          *)
(***************************************************************************)
EXTENDS Integers, Sequences, FiniteSets, TLC

\* ------------------------------------------------------------------ bounds
NLeaves == 2          \* plain leaf Factors available as operands
MaxConst == 1         \* numeric constants 1..MaxConst
MaxExprLen == 3       \* longest expression (in tokens) reused as an operand
NFuncs == 2           \* how many of the NUMEXPR_MATH_FUNCS names are exercised
NRows == 1            \* rows of the array handed to Rank.compute_from_arrays
NCols == 2            \* columns of that array
MaxVal == 1           \* raw values are 1..MaxVal, or nan

\* ------------------------------------------------------- program constants
MATH_BINOPS == {"+", "-", "*", "/", "**", "%"}
COMPARISONS == {"<", "<=", "!=", ">=", ">", "=="}
UNARY_OPS == {"-"}
FuncNames == <<"log", "sqrt", "exp", "abs", "sin", "cos", "tan">>
NUMEXPR_MATH_FUNCS == {FuncNames[i] : i \in 1..NFuncs}

\* Symbols handed to the factories that the class body never passes.
OtherUnarySymbols == {"~", "+"}
OtherFuncNames == {"floor"}

is_comparison(op) == op \in COMPARISONS

\* ------------------------------------------------------------------ tokens
X(i) == [t |-> "x", n |-> i, s |-> ""]
C(c) == [t |-> "c", n |-> c, s |-> ""]
S(str) == [t |-> "s", n |-> 0, s |-> str]

\* ------------------------------------------------------------------ values
NoBinds == <<>>
Leaf(id) == [kind |-> "Factor", id |-> id, expr |-> <<>>, binds |-> NoBinds]
Number(c) == [kind |-> "Number", id |-> c, expr |-> <<>>, binds |-> NoBinds]
Object == [kind |-> "Object", id |-> 0, expr |-> <<>>, binds |-> NoBinds]
NumExprFactor(expr, binds) == [kind |-> "NumExprFactor", id |-> 0, expr |-> expr, binds |-> binds]
NumExprFilter(expr, binds) == [kind |-> "NumExprFilter", id |-> 0, expr |-> expr, binds |-> binds]

Leaves == {Leaf(i) : i \in 1..NLeaves}
Numbers == {Number(c) : c \in 1..MaxConst}

isNumExprFactor(v) == v.kind = "NumExprFactor"
\* NumExprFactor is the only NumericalExpression that is also a Factor.
isNumericalExpression(v) == v.kind \in {"NumExprFactor", "NumExprFilter"}
isFactor(v) == v.kind \in {"Factor", "NumExprFactor"}
isNumeric(v) == v.kind = "Number"

\* Results that are not expressions.
Raised(kind, op, left, right) == [kind |-> kind, op |-> op, left |-> left, right |-> right]
bad_op(op, left, right) == Raised("UnsupportedOperator", op, left, right)
NoResult == [kind |-> "none"]

\* ------------------------------------------- zipline.modelling.expression
\* Python magic method implementing `op`; with commute, the method that
\* implements it with the arguments flipped.
method_name_for_op(op, commute) ==
    IF commute
    THEN CASE op = "+" -> "__radd__" [] op = "-" -> "__rsub__"
           [] op = "*" -> "__rmul__" [] op = "/" -> "__rdiv__"
           [] op = "%" -> "__rmod__" [] op = "**" -> "__rpow__"
           [] op = "<" -> "__gt__" [] op = "<=" -> "__ge__"
           [] op = "==" -> "__eq__" [] op = "!=" -> "__ne__"
           [] op = ">=" -> "__le__" [] op = ">" -> "__lt__"
    ELSE CASE op = "+" -> "__add__" [] op = "-" -> "__sub__"
           [] op = "*" -> "__mul__" [] op = "/" -> "__div__"
           [] op = "%" -> "__mod__" [] op = "**" -> "__pow__"
           [] op = "<" -> "__lt__" [] op = "<=" -> "__le__"
           [] op = "==" -> "__eq__" [] op = "!=" -> "__ne__"
           [] op = ">=" -> "__ge__" [] op = ">" -> "__gt__"

Contains(tup, elem) == \E i \in 1..Len(tup) : tup[i] = elem

\* tuple.index: the 0-based position of the first occurrence.
IndexOf(tup, elem) ==
    (CHOOSE i \in 1..Len(tup) : tup[i] = elem /\ \A j \in 1..(i - 1) : tup[j] # elem) - 1

\* The tuple holding all of tup plus elem, and elem's index in it.
ensure_element(tup, elem) ==
    IF Contains(tup, elem)
    THEN [inputs |-> tup, idx |-> IndexOf(tup, elem)]
    ELSE [inputs |-> Append(tup, elem), idx |-> Len(tup)]

\* A's leaves in order, then B's leaves in order, skipping those already placed.
RECURSIVE UnionLeaves(_, _)
UnionLeaves(a, b) ==
    IF b = <<>> THEN a
    ELSE UnionLeaves(IF Contains(a, Head(b)) THEN a ELSE Append(a, Head(b)), Tail(b))

\* expr with every x_j renumbered to the index of inputs[j] in new_inputs.
rebind_variables(expr, inputs, new_inputs) ==
    [k \in 1..Len(expr) |->
        IF expr[k].t = "x" THEN X(IndexOf(new_inputs, inputs[expr[k].n + 1])) ELSE expr[k]]

merge_expressions(self, other) ==
    LET new_inputs == UnionLeaves(self.binds, other.binds)
    IN [raised |-> FALSE,
        self_expr |-> self.expr,
        other_expr |-> rebind_variables(other.expr, other.binds, new_inputs),
        new_inputs |-> new_inputs]

build_binary_op(self, op, other) ==
    IF isNumericalExpression(other) THEN merge_expressions(self, other)
    ELSE IF other.kind = "Factor"
    THEN LET e == ensure_element(self.binds, other.id)
         IN [raised |-> FALSE, self_expr |-> self.expr,
             other_expr |-> <<X(e.idx)>>, new_inputs |-> e.inputs]
    ELSE IF isNumeric(other)
    THEN [raised |-> FALSE, self_expr |-> self.expr,
          other_expr |-> <<C(other.id)>>, new_inputs |-> self.binds]
    ELSE [raised |-> TRUE, error |-> bad_op(op, self, other)]

\* ------------------------------------------------------ operator factories
Method(fn, op) == [kind |-> "method", fn |-> fn, op |-> op]

binop_return_type(op) == IF is_comparison(op) THEN "NumExprFilter" ELSE "NumExprFactor"

return_type(op, expr, binds) ==
    IF binop_return_type(op) = "NumExprFilter"
    THEN NumExprFilter(expr, binds) ELSE NumExprFactor(expr, binds)

binary_operator(op) == Method("binary_operator", op)

reflected_binary_operator(op) ==
    IF is_comparison(op) THEN Raised("AssertionError", op, "", "")
    ELSE Method("reflected_binary_operator", op)

valid_ops == {"-"}

unary_operator(op) ==
    IF op \notin valid_ops THEN Raised("ValueError", op, "", "")
    ELSE Method("unary_operator", op)

function_application(func) ==
    IF func \notin NUMEXPR_MATH_FUNCS THEN Raised("ValueError", func, "", "")
    ELSE Method("mathfunc", func)

\* The methods the class body of Factor defines, as (name, method) pairs.
clsdict ==
    {<<method_name_for_op(op, FALSE), binary_operator(op)>> :
        op \in MATH_BINOPS \cup (COMPARISONS \ {"=="})}
    \cup {<<method_name_for_op(op, TRUE), reflected_binary_operator(op)>> : op \in MATH_BINOPS}
    \cup {<<"__neg__", unary_operator(op)>> : op \in UNARY_OPS}
    \cup {<<funcname, function_application(funcname)>> : funcname \in NUMEXPR_MATH_FUNCS}
    \cup {<<"__truediv__", binary_operator("/")>>,
          <<"__rtruediv__", reflected_binary_operator("/")>>,
          <<"eq", binary_operator("==")>>}

hasattr(name) == \E e \in clsdict : e[1] = name
getattr(name) == (CHOOSE e \in clsdict : e[1] = name)[2]

\* The interpreters the package runs on.
Pythons == {2, 3}

\* ------------------------------------------------------- operator methods
\* Variant: the reflected method renders its own expression on the left.
reflected_not_swapped(op, self, other) ==
    IF isNumericalExpression(self)
    THEN LET r == build_binary_op(self, op, other)
         IN IF r.raised THEN r.error
            ELSE NumExprFactor(<<S("(")>> \o r.self_expr \o <<S(")"), S(op), S("(")>>
                                  \o r.other_expr \o <<S(")")>>,
                               r.new_inputs)
    ELSE IF isNumeric(other)
    THEN NumExprFactor(<<C(other.id), S(op), X(0)>>, <<self.id>>)
    ELSE bad_op(op, other, self)

reflected_binary_operator_method(op, self, other) ==
    IF isNumericalExpression(self)
    THEN LET r == build_binary_op(self, op, other)
         IN IF r.raised THEN r.error
            ELSE NumExprFactor(<<S("(")>> \o r.other_expr \o <<S(")"), S(op), S("(")>>
                                  \o r.self_expr \o <<S(")")>>,
                               r.new_inputs)
    ELSE IF isNumeric(other)
    THEN NumExprFactor(<<C(other.id), S(op), X(0)>>, <<self.id>>)
    ELSE bad_op(op, other, self)

RECURSIVE binary_operator_method(_, _, _, _)
RECURSIVE commuted_method(_, _, _, _)

\* commuted_method_getter(other)(self): the attribute of `other` named by
\* method_name_for_op(op, commute=True), called with `self`.
commuted_method(op, other, self, py) ==
    LET name == method_name_for_op(op, TRUE)
    IN IF hasattr(name)
       THEN LET m == getattr(name)
            IN IF m.fn = "binary_operator"
               THEN binary_operator_method(m.op, other, self, py)
               ELSE reflected_binary_operator_method(m.op, other, self)
       \* Factor defines no such method: object's own attribute is found.
       ELSE IF py = 3 THEN Raised("NotImplemented", op, other, self)
       ELSE Raised("AttributeError", op, other, self)

\* Variants of binary_operator_method: "no_identity" drops the `self is other`
\* test, "swapped" binds two leaves as (other, self), "keeps_inputs" passes
\* self's own inputs instead of the merged ones.
binary_operator_variant(op, self, other, py, variant) ==
    IF isNumExprFactor(self)
    THEN LET r == build_binary_op(self, op, other)
         IN IF r.raised THEN r.error
            ELSE return_type(op,
                             <<S("(")>> \o r.self_expr \o <<S(")"), S(op), S("(")>>
                                \o r.other_expr \o <<S(")")>>,
                             IF variant = "keeps_inputs" THEN self.binds ELSE r.new_inputs)
    ELSE IF isNumExprFactor(other) THEN commuted_method(op, other, self, py)
    ELSE IF isFactor(other)
    THEN IF self = other /\ variant # "no_identity"
         THEN return_type(op, <<X(0), S(op), X(0)>>, <<self.id>>)
         ELSE IF variant = "swapped"
         THEN return_type(op, <<X(0), S(op), X(1)>>, <<other.id, self.id>>)
         ELSE return_type(op, <<X(0), S(op), X(1)>>, <<self.id, other.id>>)
    ELSE IF isNumeric(other)
    THEN return_type(op, <<X(0), S(op), S("("), C(other.id), S(")")>>, <<self.id>>)
    ELSE bad_op(op, self, other)

binary_operator_no_identity(op, self, other, py) ==
    binary_operator_variant(op, self, other, py, "no_identity")

binary_operator_swapped(op, self, other, py) ==
    binary_operator_variant(op, self, other, py, "swapped")

binary_operator_keeps_inputs(op, self, other, py) ==
    binary_operator_variant(op, self, other, py, "keeps_inputs")

binary_operator_method(op, self, other, py) ==
    IF isNumExprFactor(self)
    THEN LET r == build_binary_op(self, op, other)
         IN IF r.raised THEN r.error
            ELSE return_type(op,
                             <<S("(")>> \o r.self_expr \o <<S(")"), S(op), S("(")>>
                                \o r.other_expr \o <<S(")")>>,
                             r.new_inputs)
    ELSE IF isNumExprFactor(other) THEN commuted_method(op, other, self, py)
    ELSE IF isFactor(other)
    THEN IF self = other
         THEN return_type(op, <<X(0), S(op), X(0)>>, <<self.id>>)
         ELSE return_type(op, <<X(0), S(op), X(1)>>, <<self.id, other.id>>)
    ELSE IF isNumeric(other)
    THEN return_type(op, <<X(0), S(op), S("("), C(other.id), S(")")>>, <<self.id>>)
    ELSE bad_op(op, self, other)

unary_operator_method(op, self) ==
    IF isNumericalExpression(self)
    THEN NumExprFactor(<<S(op), S("(")>> \o self.expr \o <<S(")")>>, self.binds)
    ELSE NumExprFactor(<<S(op), X(0)>>, <<self.id>>)

\* Variant: the compound case is missing, the operand is bound as a leaf.
mathfunc_leaf_only(func, self) ==
    NumExprFactor(<<S(func), S("("), X(0), S(")")>>, <<self.id>>)

mathfunc(func, self) ==
    IF isNumericalExpression(self)
    THEN NumExprFactor(<<S(func), S("(")>> \o self.expr \o <<S(")")>>, self.binds)
    ELSE NumExprFactor(<<S(func), S("("), X(0), S(")")>>, <<self.id>>)

\* Calling method m on `self` (with `other` when it is binary).
Apply(m, self, other, py) ==
    CASE m.fn = "binary_operator" -> binary_operator_method(m.op, self, other, py)
      [] m.fn = "reflected_binary_operator" -> reflected_binary_operator_method(m.op, self, other)
      [] m.fn = "unary_operator" -> unary_operator_method(m.op, self)
      [] m.fn = "mathfunc" -> mathfunc(m.op, self)

\* -------------------------------------------------------------------- Rank
RANK_METHODS == {"average", "min", "max", "dense", "ordinal"}

\* Method names a caller may pass that are not rank methods.
OtherMethods == {"bogus", "first", "mean", "Ordinal", ""}

\* float64 nan. Ranks are float64 too: they are kept in units of one half, so
\* that the 'average' method's .5 * (...) stays an integer.
nan == -1
Values == (1..MaxVal) \cup {nan}
Arrays == [1..NRows -> [1..NCols -> Values]]
Masks == [1..NRows -> [1..NCols -> BOOLEAN]]

\* numpy's argsort puts nan last; the sort is stable on these short rows.
SortKey(v) == IF v = nan THEN MaxVal + 1 ELSE v
SortsBefore(a, j, i) ==
    SortKey(a[j]) < SortKey(a[i]) \/ (SortKey(a[j]) = SortKey(a[i]) /\ j < i)

\* The algorithm of scipy.stats.rankdata(a, method) on one row, in half units.
rankdata_row(a, meth) ==
    LET n == Len(a)
        \* inv[i]: 0-based position of a[i] in sorted order
        inv == [i \in 1..n |-> Cardinality({j \in 1..n : SortsBefore(a, j, i)})]
        arr == [k \in 1..n |-> a[CHOOSE i \in 1..n : inv[i] = k - 1]]
        \* obs = r_[True, arr[1:] != arr[:-1]]; nan differs from everything
        obs == [k \in 1..n |-> k = 1 \/ arr[k] = nan \/ arr[k] # arr[k - 1]]
        dense == [i \in 1..n |-> Cardinality({k \in 1..(inv[i] + 1) : obs[k]})]
        starts == {k - 1 : k \in {k \in 1..n : obs[k]}}
        \* count = r_[nonzero(obs)[0], len(obs)], indexed from 0
        count(d) == IF d = Cardinality(starts) THEN n
                    ELSE CHOOSE t \in starts : Cardinality({u \in starts : u < t}) = d
    IN [i \in 1..n |->
          CASE meth = "ordinal" -> 2 * (inv[i] + 1)
            [] meth = "dense" -> 2 * dense[i]
            [] meth = "max" -> 2 * count(dense[i])
            [] meth = "min" -> 2 * (count(dense[i] - 1) + 1)
            [] meth = "average" -> count(dense[i]) + count(dense[i] - 1) + 1]

\* rankdata tabulated once over the rows of the model.
RankTable ==
    [a \in [1..NCols -> Values] |-> [meth \in RANK_METHODS |-> rankdata_row(a, meth)]]

rankdata(a, meth) == RankTable[a][meth]

\* Rank.__new__ / Rank._init: the method is stored, nothing is checked yet.
NewRankObject(factor, meth) ==
    [state |-> "constructed", inputs |-> <<factor>>, method |-> meth, error |-> NoResult]

\* Variant: nothing is checked.
validate_accepts_all(r) == [r EXCEPT !.state = "ready"]

\* Rank._validate
validate(r) ==
    IF r.method \notin RANK_METHODS
    THEN [r EXCEPT !.state = "failed",
                   !.error = [kind |-> "UnknownRankMethod", method |-> r.method,
                              choices |-> RANK_METHODS]]
    ELSE [r EXCEPT !.state = "ready"]

\* Variant: only the cells holding nan are overwritten.
compute_nan_only(r, arrs, msk) ==
    LET ranked == [i \in 1..NRows |-> rankdata(arrs[1][i], r.method)]
    IN [i \in 1..NRows |->
          [j \in 1..NCols |-> IF arrs[1][i][j] = nan THEN nan ELSE ranked[i][j]]]

\* Variant: the masked-out cells are blanked before the rows are ranked.
compute_mask_first(r, arrs, msk) ==
    LET kept == [i \in 1..NRows |->
                    [j \in 1..NCols |-> IF msk[i][j] THEN arrs[1][i][j] ELSE nan]]
        ranked == [i \in 1..NRows |-> rankdata(kept[i], r.method)]
    IN [i \in 1..NRows |-> [j \in 1..NCols |-> IF ~msk[i][j] THEN nan ELSE ranked[i][j]]]

\* Rank.compute_from_arrays
compute_from_arrays(r, arrs, msk) ==
    LET ranked == [i \in 1..NRows |-> rankdata(arrs[1][i], r.method)]
    IN [i \in 1..NRows |-> [j \in 1..NCols |-> IF ~msk[i][j] THEN nan ELSE ranked[i][j]]]

\* ------------------------------------------------------------------- state
VARIABLES
    method,     \* what the last factory call produced: a method, or the error raised
    self,       \* the Factor a method is called on
    other,      \* the second operand of a binary method
    out,        \* what the last call of `method` on (self, other) produced
    rank,       \* the Rank factor under construction or in use
    arrays,     \* the input arrays of the last compute_from_arrays call
    mask,       \* its mask
    result      \* what it returned

exprVars == <<method, self, other, out>>
rankVars == <<rank, arrays, mask, result>>
vars == <<method, self, other, out, rank, arrays, mask, result>>

NoRank == [state |-> "none"]

ExprInit ==
    /\ method = [kind |-> "none"]
    /\ self = Leaf(1)
    /\ other = Leaf(1)
    /\ out = NoResult

RankInit ==
    /\ rank = NoRank
    /\ arrays = <<>>
    /\ mask = <<>>
    /\ result = <<>>

Init == ExprInit /\ RankInit

NoMethod == [kind |-> "none"]
Idle == method.kind = "none" /\ out.kind = "none"

\* A factory is called with a symbol: it returns a method or raises.
MakeBinary(op) ==
    /\ Idle
    /\ method' = binary_operator(op)
    /\ UNCHANGED <<self, other, out, rankVars>>

MakeReflected(op) ==
    /\ Idle
    /\ method' = reflected_binary_operator(op)
    /\ UNCHANGED <<self, other, out, rankVars>>

MakeUnary(op) ==
    /\ Idle
    /\ method' = unary_operator(op)
    /\ UNCHANGED <<self, other, out, rankVars>>

MakeFunction(func) ==
    /\ Idle
    /\ method' = function_application(func)
    /\ UNCHANGED <<self, other, out, rankVars>>

\* The method a factory returned is called on the operands.
Call ==
    /\ method.kind = "method"
    /\ out.kind = "none"
    /\ \E py \in Pythons : out' = Apply(method, self, other, py)
    /\ UNCHANGED <<method, self, other, rankVars>>

Reusable(v) == isNumExprFactor(v) /\ Len(v.expr) <= MaxExprLen

\* The methods of Factor, and the expressions one call of them builds from
\* leaves and constants.
Methods == {e[2] : e \in clsdict}
OneCall ==
    {v \in {Apply(m, a, b, 3) : m \in Methods, a \in Leaves, b \in Leaves \cup Numbers} :
        Reusable(v)}

SetSelf(v) ==
    /\ Idle
    /\ self' = v
    /\ UNCHANGED <<method, other, out, rankVars>>

SetOther(v) ==
    /\ Idle
    /\ other' = v
    /\ UNCHANGED <<method, self, out, rankVars>>

\* The expression just built becomes an operand of the next call.
UseAsSelf ==
    /\ Reusable(out)
    /\ self' = out
    /\ method' = NoMethod
    /\ out' = NoResult
    /\ UNCHANGED <<other, rankVars>>

UseAsOther ==
    /\ Reusable(out)
    /\ other' = out
    /\ method' = NoMethod
    /\ out' = NoResult
    /\ UNCHANGED <<self, rankVars>>

\* The result (or the factory's error) is dropped.
Discard ==
    /\ method.kind # "none"
    /\ method' = NoMethod
    /\ out' = NoResult
    /\ UNCHANGED <<self, other, rankVars>>

Next ==
    \/ \E op \in MATH_BINOPS \cup COMPARISONS : MakeBinary(op)
    \/ \E op \in MATH_BINOPS \cup COMPARISONS : MakeReflected(op)
    \/ \E op \in UNARY_OPS \cup OtherUnarySymbols : MakeUnary(op)
    \/ \E func \in NUMEXPR_MATH_FUNCS \cup OtherFuncNames : MakeFunction(func)
    \/ Call
    \/ \E v \in Leaves \cup OneCall : SetSelf(v)
    \/ \E v \in Leaves \cup OneCall \cup Numbers \cup {Object} : SetOther(v)
    \/ UseAsSelf
    \/ UseAsOther
    \/ Discard

Spec == Init /\ [][Next]_vars

\* ------------------------------------------------------------ Rank lifecycle
\* The factor ranked.
RankInputs == {Leaf(1)}

\* Factor.rank(method) on factor: a new Rank of it.
NewRank(factor, meth) ==
    /\ result = <<>>
    /\ rank' = NewRankObject(factor, meth)
    /\ arrays' = <<>>
    /\ mask' = <<>>
    /\ result' = <<>>
    /\ UNCHANGED exprVars

Validate ==
    /\ rank.state = "constructed"
    /\ rank' = validate(rank)
    /\ UNCHANGED <<arrays, mask, result, exprVars>>

\* A term is computed only once it is validated. compute_from_arrays keeps no
\* state, so one call per Rank object shows all it can do.
Computable == rank.state = "ready" /\ result = <<>>

Compute(arr, msk) ==
    /\ arrays' = <<arr>>
    /\ mask' = msk
    /\ result' = compute_from_arrays(rank, <<arr>>, msk)
    /\ UNCHANGED <<rank, exprVars>>

\* The caller takes the result; the Rank stays ready for the next call.
Collect ==
    /\ result # <<>>
    /\ arrays' = <<>>
    /\ mask' = <<>>
    /\ result' = <<>>
    /\ UNCHANGED <<rank, exprVars>>

RankNext ==
    \/ \E f \in RankInputs, meth \in RANK_METHODS \cup OtherMethods : NewRank(f, meth)
    \/ Validate
    \/ /\ Computable
       /\ \E arr \in Arrays, msk \in Masks : Compute(arr, msk)
    \/ Collect

RankSpec == Init /\ [][RankNext]_vars

\* ------------------------------------------------------------- properties
IsCall(fn) == method.kind = "method" /\ method.fn = fn /\ out.kind # "none"
BinaryCall == IsCall("binary_operator")
ReflectedCall == IsCall("reflected_binary_operator")

Placeholders(expr) == {expr[k].n : k \in {k \in 1..Len(expr) : expr[k].t = "x"}}
NoDuplicates(binds) == \A i, j \in 1..Len(binds) : binds[i] = binds[j] => i = j
Occurrences(binds, leaf) == Cardinality({i \in 1..Len(binds) : binds[i] = leaf})
LeafSet(binds) == {binds[i] : i \in 1..Len(binds)}

WellBound(v) ==
    /\ Placeholders(v.expr) = 0..(Len(v.binds) - 1)
    /\ NoDuplicates(v.binds)

\* The expression with every placeholder replaced by the leaf it is bound to.
LeafTok(id) == [t |-> "leaf", n |-> id, s |-> ""]
Resolve(v) ==
    [k \in 1..Len(v.expr) |->
        IF v.expr[k].t = "x" THEN LeafTok(v.binds[v.expr[k].n + 1]) ELSE v.expr[k]]

\* An operand as a sub-expression over leaves.
Operand(v) ==
    IF isNumericalExpression(v) THEN Resolve(v)
    ELSE IF isNumeric(v) THEN <<C(v.id)>> ELSE <<LeafTok(v.id)>>

Infix(left, op, right) ==
    <<S("(")>> \o left \o <<S(")"), S(op), S("(")>> \o right \o <<S(")")>>

\* C1: every compound expression built by the operators uses exactly the
\* placeholders x_0 .. x_{k-1}, k = len(binds), binds holds no leaf twice, and
\* a leaf shared by two merged compound expressions is bound exactly once.
C1_WellBound ==
    /\ \A v \in {self, other, out} : isNumericalExpression(v) => WellBound(v)
    /\ (isNumExprFactor(self) /\ isNumExprFactor(other) /\ isNumericalExpression(out))
          => \A leaf \in LeafSet(self.binds) \cap LeafSet(other.binds) :
                Occurrences(out.binds, leaf) = 1

C1_Witness ==
    /\ BinaryCall
    /\ isNumExprFactor(self) /\ isNumExprFactor(other)
    /\ LeafSet(self.binds) \cap LeafSet(other.binds) # {}
    /\ self.binds # other.binds
    /\ isNumericalExpression(out)
    /\ Len(out.binds) = 2

\* C2: on plain leaves, A op A gives `x_0 op x_0` bound to (A,), and A op B
\* with B another leaf gives `x_0 op x_1` bound to (A, B) in that order.
C2_LeafLeaf ==
    (BinaryCall /\ self.kind = "Factor" /\ other.kind = "Factor")
       => /\ isNumericalExpression(out)
          /\ IF self.id = other.id
             THEN /\ out.expr = <<X(0), S(method.op), X(0)>>
                  /\ out.binds = <<self.id>>
             ELSE /\ out.expr = <<X(0), S(method.op), X(1)>>
                  /\ out.binds = <<self.id, other.id>>

C2_Witness ==
    /\ BinaryCall /\ self.kind = "Factor" /\ other = self
    /\ method.op = "-"
    /\ Len(out.binds) = 1

\* C3: where both are defined, A op B and the reflected call on B with
\* argument A denote the same expression: A's sub-expression left of op, B's
\* right of it, every placeholder bound to the same leaf.
C3_ForwardReflected ==
    (BinaryCall /\ method.op \in MATH_BINOPS /\ isNumExprFactor(out) /\ isFactor(other))
       => LET r == reflected_binary_operator_method(method.op, other, self)
          IN isNumExprFactor(r)
                => /\ Resolve(r) = Resolve(out)
                   /\ Resolve(out) = Infix(Operand(self), method.op, Operand(other))

C3_Witness ==
    /\ BinaryCall /\ method.op = "-" /\ isNumExprFactor(out)
    /\ isNumExprFactor(self) /\ isNumExprFactor(other)
    /\ Len(self.binds) = 2 /\ Len(other.binds) = 2
    /\ self.binds # other.binds
    /\ isNumExprFactor(reflected_binary_operator_method(method.op, other, self))

\* The operand pairs the dispatch rules cover.
Covered(v) == isNumExprFactor(v) \/ v.kind = "Factor" \/ isNumeric(v)

\* C4: on every covered operand pair a comparison (eq included) yields a
\* NumExprFilter and an arithmetic operator a NumExprFactor.
C4_ResultKind ==
    (BinaryCall /\ isFactor(self) /\ Covered(other))
       => out.kind = (IF is_comparison(method.op) THEN "NumExprFilter" ELSE "NumExprFactor")

\* C7: a binary call on a plain leaf with an unsupported operand, and a
\* reflected call on a plain leaf with a non-numeric operand, raise bad_op
\* naming the operator and both operands; every covered call returns an
\* expression.
C7_BadOp ==
    /\ (BinaryCall /\ self.kind = "Factor" /\ ~Covered(other))
          => out = bad_op(method.op, self, other)
    /\ (BinaryCall /\ Covered(other)) => isNumericalExpression(out)
    /\ (ReflectedCall /\ self.kind = "Factor" /\ ~isNumeric(other))
          => out = bad_op(method.op, other, self)
    /\ (ReflectedCall /\ self.kind = "Factor" /\ isNumeric(other))
          => isNumericalExpression(out)
    /\ (ReflectedCall /\ isNumExprFactor(self) /\ Covered(other))
          => isNumericalExpression(out)

C9_UnaryFrame ==
    /\ IsCall("unary_operator")
          => /\ out.kind = "NumExprFactor"
             /\ IF isNumericalExpression(self)
                THEN /\ out.binds = self.binds
                     /\ out.expr = <<S("-"), S("(")>> \o self.expr \o <<S(")")>>
                ELSE /\ out.binds = <<self.id>>
                     /\ out.expr = <<S("-"), X(0)>>
    /\ IsCall("mathfunc")
          => /\ out.kind = "NumExprFactor"
             /\ IF isNumericalExpression(self)
                THEN /\ out.binds = self.binds
                     /\ out.expr = <<S(method.op), S("(")>> \o self.expr \o <<S(")")>>
                ELSE /\ out.binds = <<self.id>>
                     /\ out.expr = <<S(method.op), S("("), X(0), S(")")>>
    /\ (method.kind = "method" /\ method.fn = "unary_operator") => method.op = "-"
    /\ (method.kind = "method" /\ method.fn = "mathfunc")
          => method.op \in {FuncNames[i] : i \in 1..NFuncs}

C9_Witness ==
    /\ IsCall("mathfunc")
    /\ isNumExprFactor(self) /\ Len(self.binds) = 2
    /\ out.binds = self.binds

\* ------------------------------------------------------- Rank properties
Computed == result # <<>>
Cells == (1..NRows) \X (1..NCols)
ValidCols(i) == {j \in 1..NCols : mask[i][j]}

\* C5: compute returns a same-shaped array whose cell is nan wherever the
\* mask is false, whatever the raw value or raw rank of that cell.
C5_MaskedIsNaN ==
    Computed
       => /\ DOMAIN result = 1..NRows
          /\ \A i \in 1..NRows : DOMAIN result[i] = 1..NCols
          /\ \A c \in Cells : ~mask[c[1]][c[2]] => result[c[1]][c[2]] = nan

C5_Witness ==
    /\ Computed
    /\ \E c \in Cells :
          /\ ~mask[c[1]][c[2]]
          /\ arrays[1][c[1]][c[2]] # nan
          /\ result[c[1]][c[2]] = nan
          /\ \E j \in ValidCols(c[1]) : result[c[1]][j] # nan

\* C6: validation fails exactly for a method outside the five allowed ones,
\* with an error carrying the value and the valid set, and nothing is
\* computed by a Rank that is not validated.
C6_Validation ==
    LET allowed == {"average", "min", "max", "dense", "ordinal"}
    IN /\ rank.state = "failed"
            => /\ rank.method \notin allowed
               /\ rank.error = [kind |-> "UnknownRankMethod", method |-> rank.method,
                                choices |-> allowed]
       /\ rank.state = "ready" => rank.method \in allowed
       /\ Computed => (rank.state = "ready" /\ rank.method \in allowed)

C6_Witness == rank.state = "failed" /\ rank.method = "bogus"

AllValid == [i \in 1..NRows |-> [j \in 1..NCols |-> TRUE]]

\* C10: a valid cell holds the rank it has within the complete row, masked-out
\* columns included: the rank the primitive gives it, which is also what
\* compute returns for it under the mask that hides nothing, so the mask of
\* the other cells never changes it.
C10_RankOverWholeRow ==
    Computed
       => LET unmasked == compute_from_arrays(rank, arrays, AllValid)
          IN \A c \in Cells :
                mask[c[1]][c[2]]
                   => /\ result[c[1]][c[2]] = rankdata_row(arrays[1][c[1]], rank.method)[c[2]]
                      /\ result[c[1]][c[2]] = unmasked[c[1]][c[2]]

\* A row whose valid cells are not ranked 1..v: a masked-out cell with a raw
\* value takes one of the ranks.
C10_Witness ==
    /\ Computed /\ rank.method = "ordinal"
    /\ \E i \in 1..NRows :
          /\ ValidCols(i) # {}
          /\ \E j \in (1..NCols) \ ValidCols(i) : arrays[1][i][j] # nan
          /\ {result[i][j] : j \in ValidCols(i)}
                # {2 * k : k \in 1..Cardinality(ValidCols(i))}

====
